---- MODULE Spec2Model ----
(***************************************************************************)
(* Model of src/main.py (SetuPlugin): the image pipeline                   *)
(* _process_and_send with its helpers.  A run is a coroutine; every action *)
(* below is "one await returns (or raises), then the code runs up to the   *)
(* next await".  Strings are sequences of tokens ("http" is the 4-letter   *)
(* prefix, " " a whitespace character, anything else an opaque chunk), so  *)
(* strip() and startswith("http") are computed, not assumed.  Byte strings *)
(* are [head, len]: the first (at most 4) bytes and the true length.       *)
(***************************************************************************)
EXTENDS Integers, Sequences, FiniteSets, TLC

\* ---------------------------------------------------------------- bounds
MaxLen     == 2     \* longest api_list
MaxRetries == 2     \* largest configured send_retries
MaxTime    == 18    \* the clock stops here
MaxKids    == 2     \* most members of a JSON mapping or list

\* ------------------------------------------------------ program constants
CleanupDelay      == 15         \* asyncio.sleep(15) in delayed_delete
RetrySleep        == 1          \* asyncio.sleep(1) between send attempts
compress_threshold == 5         \* cfg default, in MB
MB                == 1048576    \* 1024 * 1024

cooldown          == 10         \* cfg default, in seconds

\* a run is the handling of one matching message; Spec has one, the
\* specifications about concurrent messages have both
Runs == {1, 2}

\* ---------------------------------------------------------------- strings
EmptyStr == <<>>

RECURSIVE LStrip(_)
LStrip(s) == IF s # <<>> /\ Head(s) = " " THEN LStrip(Tail(s)) ELSE s

RECURSIVE RStrip(_)
RStrip(s) ==
    IF s # <<>> /\ s[Len(s)] = " " THEN RStrip(SubSeq(s, 1, Len(s) - 1)) ELSE s

\* str.strip()
Strip(s) == RStrip(LStrip(s))

\* str.startswith("http")
StartsWithHttp(s) == s # <<>> /\ Head(s) = "http"

\* ------------------------------------------------------------------ bytes
NoBytes    == [head |-> <<>>, len |-> -1]       \* image_bytes = None
EmptyBytes == [head |-> <<>>, len |-> 0]        \* b""
PngMagic   == <<137, 80, 78, 71>>               \* b'\x89PNG'
GifMagic   == <<71, 73, 70>>                    \* b'GIF'

\* bytes[0:n]
Prefix(b, n) == SubSeq(b.head, 1, IF Len(b.head) < n THEN Len(b.head) ELSE n)

\* "not image_bytes"
Falsy(b) == b.len <= 0

\* variant: three bytes of the PNG signature are compared
FileExt_ThreeBytes(b) ==
    IF Prefix(b, 3) = SubSeq(PngMagic, 1, 3) THEN "png"
    ELSE IF Prefix(b, 3) = GifMagic THEN "gif"
    ELSE "jpg"

\* lines 153-155
FileExt(b) ==
    IF Prefix(b, 4) = PngMagic THEN "png"
    ELSE IF Prefix(b, 3) = GifMagic THEN "gif"
    ELSE "jpg"

\* outcome of PIL decoding + JPEG encoding: failure, or the encoded bytes
PilFail  == NoBytes
JpegOut  == [head |-> <<255, 216, 255, 224>>, len |-> 4096]

\* variant: the threshold itself is compressed
_compress_image_AtThreshold(image_data, enable, pil) ==
    IF ~enable THEN image_data
    ELSE IF image_data.len < compress_threshold * 1024 * 1024 THEN image_data
    ELSE IF pil = PilFail THEN image_data
    ELSE pil

\* lines 50-69; pil is what PILImage.open/convert/save produce
_compress_image(image_data, enable, pil) ==
    IF ~enable THEN image_data
    ELSE IF image_data.len <= compress_threshold * 1024 * 1024 THEN image_data
    ELSE IF pil = PilFail THEN image_data
    ELSE pil

\* ------------------------------------------------------------------- JSON
\* A JSON value is [t, s, kids]: t in {"str","list","dict","other"}; s the
\* string of a "str"; kids the <<key, value>> pairs of a dict in insertion
\* order, or the <<"", element>> pairs of a list.
JStr(s)     == [t |-> "str", s |-> s, kids |-> <<>>]
JOther      == [t |-> "other", s |-> <<>>, kids |-> <<>>]
JList(ks)   == [t |-> "list", s |-> <<>>, kids |-> ks]
JDict(ks)   == [t |-> "dict", s |-> <<>>, kids |-> ks]

\* variant: url is looked up first
PriorityKeys_UrlFirst == <<"url", "original", "url_original", "img", "image", "src", "link">>

PriorityKeys == <<"original", "url_original", "url", "img", "image", "src", "link">>

\* data[key] for a key the dict has
DictGet(kids, key) == kids[CHOOSE j \in 1..Len(kids) : kids[j][1] = key][2]
HasKey(kids, key)  == \E j \in 1..Len(kids) : kids[j][1] = key

\* line 43
KeyHit(kids, key) ==
    /\ HasKey(kids, key)
    /\ DictGet(kids, key).t = "str"
    /\ StartsWithHttp(DictGet(kids, key).s)

RECURSIVE _extract_url_from_json(_)
RECURSIVE ExtractFirst(_, _)

\* variant: only the first member is searched
ExtractFirst_OnlyHead(kids, j) ==
    IF j > Len(kids) THEN EmptyStr
    ELSE _extract_url_from_json(kids[j][2])

\* the two "for ...: res = self._extract_url_from_json(x); if res: return res"
ExtractFirst(kids, j) ==
    IF j > Len(kids) THEN EmptyStr
    ELSE LET res == _extract_url_from_json(kids[j][2])
         IN  IF res # EmptyStr THEN res ELSE ExtractFirst(kids, j + 1)

_extract_url_from_json(data) ==
    IF data.t = "list" THEN ExtractFirst(data.kids, 1)
    ELSE IF data.t = "dict" THEN
        IF \E k \in 1..Len(PriorityKeys) : KeyHit(data.kids, PriorityKeys[k])
        THEN LET k == CHOOSE k \in 1..Len(PriorityKeys) :
                         /\ KeyHit(data.kids, PriorityKeys[k])
                         /\ \A m \in 1..(k - 1) : ~KeyHit(data.kids, PriorityKeys[m])
             IN  DictGet(data.kids, PriorityKeys[k]).s
        ELSE ExtractFirst(data.kids, 1)
    ELSE EmptyStr

\* ----------------------------------------------------------------- inputs
\* what the environment can hand to a run
UrlA     == <<"http", "a">>
UrlI     == <<"http", "i">>                   \* a URL named by a JSON or text body
UrlR     == <<"http", "r">>                   \* where a redirect ends

\* entries of cfg sources[..].apis: blank ones and ones that need strip()
Entries  == { <<" ">>, <<" ">> \o UrlA \o <<" ">> }

RECURSIVE SeqsUpTo(_, _)
SeqsUpTo(S, n) ==
    IF n = 0 THEN { <<>> }
    ELSE LET shorter == SeqsUpTo(S, n - 1)
         IN  shorter \cup { Append(q, e) : q \in { x \in shorter : Len(x) = n - 1 }, e \in S }

ApiLists == SeqsUpTo(Entries, MaxLen)

\* Content-Type after lower(): which of the two substrings it contains
ContentTypes == [json : BOOLEAN, image : BOOLEAN]

BigGif   == [head |-> <<71, 73, 70, 56>>, len |-> compress_threshold * MB + 1]
Bodies   == { EmptyBytes, BigGif }
PilResults == { PilFail, JpegOut }

JsonBodies == { JDict(<< <<"code", JOther>> >>),
                JDict(<< <<"url", JStr(<<"x">>)>>,
                         <<"data", JList(<< <<"", JDict(<< <<"original", JStr(UrlI)>> >>)>> >>)>> >>) }

TextBodies == { <<"x">>, <<" ">> \o UrlI, UrlI \o <<" ">> }

\* ------------------------------------------------------------------ state
VARIABLES
    api_list,        \* [run -> the api_list argument]
    send_retries,    \* cfg["send_retries"]
    pc,              \* [run -> the await the coroutine is suspended at]
    idx,             \* [run -> position in api_list, 1-based]
    final_img_url,   \* [run -> local final_img_url]
    image_bytes,     \* [run -> local image_bytes]
    temp_file_path,  \* [run -> local temp_file_path]
    attempt,         \* [run -> local attempt of the retry loop]
    send_success,    \* [run -> local send_success]
    session,         \* [run -> "none" | "open" | "closed"]
    raised,          \* [run -> an exception left _process_and_send]
    wake,            \* [run -> when asyncio.sleep(1) is over]
    files,           \* the files that exist in cache_dir
    tasks,           \* pending delayed_delete tasks
    now,             \* the clock
    uuid_ctr,        \* number of uuid4() values drawn
    ctime,           \* [file -> time it was created]      (history)
    log,             \* [run -> the calls it made, with their results] (history)
    sender,          \* [run -> event.get_sender_id() of its message]
    cooldowns,       \* self.cooldowns: [user -> time of the last trigger, -1: no entry]
    arrived,         \* [run -> time on_message started, -1: not yet]  (history)
    fn_arg,          \* argument of a helper that is called on its own
    fn_ret,          \* what that helper returned
    unlinked         \* cache files removed by something else than their task (history)

hostVars  == <<sender, cooldowns, arrived, fn_arg, fn_ret, unlinked>>
cfgVars   == <<api_list, send_retries, hostVars>>
localVars == <<pc, idx, final_img_url, image_bytes, temp_file_path, attempt, send_success>>
runVars   == <<session, raised, wake>>
storeVars == <<files, tasks, uuid_ctr, ctime>>
vars      == <<cfgVars, localVars, runVars, storeVars, now, log>>

NoPath == [id |-> 0, ext |-> ""]              \* temp_file_path = None

\* one call: op, the endpoint position i, a number n, a file id f, a string
\* arg, and res: "pending" until the call has returned or raised.  The res of
\* a GET covers its body: "raise" (the request or the read raised), "badjson",
\* "nourl", "nonhttp", "empty" (nothing usable came back), "url" (the body
\* names the URL of the image), "bytes" (image bytes came back).
Ev(op, i, n, f, arg) == [op |-> op, i |-> i, n |-> n, f |-> f, arg |-> arg, res |-> "pending"]

Call(lg, ev)    == Append(lg, ev)
Return(lg, res) == [lg EXCEPT ![Len(lg)].res = res]

TypeOK ==
    /\ api_list \in [Runs -> ApiLists]
    /\ send_retries \in 0..MaxRetries
    /\ pc \in [Runs -> {"off", "msg", "cooled", "noapi",
                        "call", "get1", "json", "read", "text", "get2", "read2", "open",
                        "write", "send", "sleep", "fallback", "notice", "done"}]
    /\ \A r \in Runs : idx[r] \in 0..(Len(api_list[r]) + 1)
    /\ \A r \in Runs : attempt[r] \in 0..send_retries
    /\ send_success \in [Runs -> BOOLEAN]
    /\ session \in [Runs -> {"none", "open", "closed"}]
    /\ raised \in [Runs -> BOOLEAN]
    /\ now \in 0..MaxTime
    /\ \A p \in files : p.id \in 1..uuid_ctr /\ p.ext \in {"jpg", "png", "gif"}
    /\ DOMAIN ctime \subseteq 1..uuid_ctr
    /\ \A t \in tasks : t.due = t.sched + CleanupDelay

Users  == {"u1", "u2"}
NoCall == <<>>                                \* fn_arg, fn_ret: nothing called

\* the locals of a run that has not started, an empty store, the clock at 0
Idle ==
    /\ idx = [r \in Runs |-> 0]
    /\ final_img_url = [r \in Runs |-> EmptyStr]
    /\ image_bytes = [r \in Runs |-> NoBytes]
    /\ temp_file_path = [r \in Runs |-> NoPath]
    /\ attempt = [r \in Runs |-> 0]
    /\ send_success = [r \in Runs |-> FALSE]
    /\ session = [r \in Runs |-> "none"]
    /\ raised = [r \in Runs |-> FALSE]
    /\ wake = [r \in Runs |-> 0]
    /\ files = {}
    /\ tasks = {}
    /\ now = 0
    /\ uuid_ctr = 0
    /\ ctime = <<>>
    /\ log = [r \in Runs |-> <<>>]
    /\ cooldowns = [u \in Users |-> -1]
    /\ arrived = [r \in Runs |-> -1]
    /\ unlinked = {}

\* one call of _process_and_send (run 1), with any list and any retry count
Init ==
    /\ \E l \in ApiLists : api_list = [r \in Runs |-> IF r = 1 THEN l ELSE <<>>]
    /\ send_retries \in 0..MaxRetries
    /\ pc = [r \in Runs |-> IF r = 1 THEN "call" ELSE "off"]
    /\ sender = [r \in Runs |-> "u1"]
    /\ fn_arg = NoCall /\ fn_ret = NoCall
    /\ Idle

\* ------------------------------------------------- synchronous code paths
\* lines 114-116: the next entry at or after position from that is not blank
\* after strip(); Len + 1 when the list is exhausted
\* variant: the entry is tested before strip()
RECURSIVE NextNonBlank_NoStrip(_, _)
NextNonBlank_NoStrip(list, from) ==
    IF from > Len(list) THEN Len(list) + 1
    ELSE IF list[from] = EmptyStr THEN NextNonBlank_NoStrip(list, from + 1)
    ELSE from

RECURSIVE NextNonBlank(_, _)
NextNonBlank(list, from) ==
    IF from > Len(list) THEN Len(list) + 1
    ELSE IF Strip(list[from]) = EmptyStr THEN NextNonBlank(list, from + 1)
    ELSE from

\* lines 114-123 and 204-205: the for statement takes the next entry, skips
\* blank ones and issues the primary GET; when the list is exhausted the else
\* clause sends the failure notice.  The locals of the previous iteration are
\* dead here (each is assigned again before it is read) and are cleared.
Iterate(r, from, lg) ==
    LET j == NextNonBlank(api_list[r], from)
    IN  /\ idx' = [idx EXCEPT ![r] = j]
        /\ temp_file_path' = [temp_file_path EXCEPT ![r] = NoPath]
        /\ image_bytes' = [image_bytes EXCEPT ![r] = NoBytes]
        /\ attempt' = [attempt EXCEPT ![r] = 0]
        /\ send_success' = [send_success EXCEPT ![r] = FALSE]
        /\ IF j <= Len(api_list[r])
           THEN /\ pc' = [pc EXCEPT ![r] = "get1"]
                /\ final_img_url' = [final_img_url EXCEPT ![r] = Strip(api_list[r][j])]
                /\ log' = [log EXCEPT ![r] = Call(lg, Ev("get1", j, 0, 0, Strip(api_list[r][j])))]
           ELSE /\ pc' = [pc EXCEPT ![r] = "notice"]
                /\ final_img_url' = [final_img_url EXCEPT ![r] = EmptyStr]
                /\ log' = [log EXCEPT ![r] = Call(lg, Ev("notice", j, 0, 0, EmptyStr))]

\* variant: the cleanup is scheduled only after a successful send
Finally_OnlyOnSuccess(r) ==
    tasks' = IF temp_file_path[r] # NoPath /\ temp_file_path[r] \in files /\ pc[r] = "send"
             THEN tasks \cup { [path |-> temp_file_path[r], sched |-> now,
                                due |-> now + CleanupDelay] }
             ELSE tasks

\* lines 196-203: the finally clause
Finally(r) ==
    tasks' = IF temp_file_path[r] # NoPath /\ temp_file_path[r] \in files
             THEN tasks \cup { [path |-> temp_file_path[r], sched |-> now,
                                due |-> now + CleanupDelay] }
             ELSE tasks

\* variant: an endpoint that failed is tried a second time
Continue_Revisit(r, lg) ==
    /\ Finally(r)
    /\ Iterate(r, IF Cardinality({ m \in 1..Len(lg) : lg[m].op = "get1" /\ lg[m].i = idx[r] }) < 2
                  THEN idx[r] ELSE idx[r] + 1, lg)
    /\ UNCHANGED <<cfgVars, runVars, files, uuid_ctr, ctime, now>>

\* "continue" inside the try (lines 148, 195): finally, then the next entry
Continue(r, lg) ==
    /\ Finally(r)
    /\ Iterate(r, idx[r] + 1, lg)
    /\ UNCHANGED <<cfgVars, runVars, files, uuid_ctr, ctime, now>>

\* variant: the session is closed by hand on the normal paths only
Leave_OpenOnException(r, lg, exc) ==
    /\ pc' = [pc EXCEPT ![r] = "done"]
    /\ session' = [session EXCEPT ![r] = IF exc THEN "open" ELSE "closed"]
    /\ raised' = [raised EXCEPT ![r] = exc]
    /\ log' = [log EXCEPT ![r] = lg]
    /\ UNCHANGED <<cfgVars, idx, final_img_url, image_bytes, temp_file_path, attempt,
                   wake, files, uuid_ctr, ctime, now>>

\* the run is left (break at 187, return at 192, end of the else clause, or an
\* exception): the async with of line 113 closes the session
Leave(r, lg, exc) ==
    /\ pc' = [pc EXCEPT ![r] = "done"]
    /\ session' = [session EXCEPT ![r] = "closed"]
    /\ raised' = [raised EXCEPT ![r] = exc]
    /\ log' = [log EXCEPT ![r] = lg]
    /\ UNCHANGED <<cfgVars, idx, final_img_url, image_bytes, temp_file_path, attempt,
                   wake, files, uuid_ctr, ctime, now>>

\* ---------------------------------------------------------------- actions
\* lines 111-123: the call creates the session and enters the loop
Enter(r) ==
    /\ session' = [session EXCEPT ![r] = "open"]
    /\ Iterate(r, 1, log[r])
    /\ UNCHANGED <<raised, wake, storeVars, now>>

\* _process_and_send is called on its own
Start(r) ==
    /\ pc[r] = "call"
    /\ Enter(r)
    /\ UNCHANGED cfgVars

\* line 123 raises (connect, read, timeout) -> line 194
Get1Raise(r) ==
    /\ pc[r] = "get1"
    /\ Continue(r, Return(log[r], "raise"))

\* lines 123-142: the response headers arrive; the body is read according to
\* the declared content type
Get1Response(r) ==
    /\ pc[r] = "get1"
    /\ \E ct \in ContentTypes, url \in {Strip(api_list[r][idx[r]]), UrlR} :
        LET api_url == Strip(api_list[r][idx[r]])
            branch  == IF ct.json THEN "json" ELSE IF ct.image THEN "read" ELSE "text"
        IN  /\ final_img_url' = [final_img_url EXCEPT ![r] =
                                    IF url # api_url THEN url ELSE final_img_url[r]]
            /\ image_bytes' = [image_bytes EXCEPT ![r] = NoBytes]
            /\ pc' = [pc EXCEPT ![r] = branch]
    /\ UNCHANGED <<cfgVars, idx, temp_file_path, attempt, send_success, runVars,
                   storeVars, now, log>>

\* line 132 raises (the body is not JSON): "except: pass", then line 148
JsonRaise(r) ==
    /\ pc[r] = "json"
    /\ Continue(r, Return(log[r], "badjson"))

\* lines 132-136 and 148
JsonParsed(r) ==
    /\ pc[r] = "json"
    /\ \E data \in JsonBodies :
        LET real_img_url == _extract_url_from_json(data)
        IN  IF real_img_url # EmptyStr
            THEN /\ final_img_url' = [final_img_url EXCEPT ![r] = real_img_url]
                 /\ pc' = [pc EXCEPT ![r] = "get2"]
                 /\ log' = [log EXCEPT ![r] =
                               Call(Return(log[r], "url"),
                                    Ev("get2", idx[r], 0, 0, real_img_url))]
                 /\ UNCHANGED <<cfgVars, idx, image_bytes, temp_file_path, attempt,
                                send_success, runVars, storeVars, now>>
            ELSE Continue(r, Return(log[r], "nourl"))

\* line 142 raises -> line 194
TextRaise(r) ==
    /\ pc[r] = "text"
    /\ Continue(r, Return(log[r], "raise"))

\* variant: the text body is fetched as a URL whatever it starts with
TextRead_FetchAnyway(r) ==
    /\ pc[r] = "text"
    /\ \E text \in TextBodies :
        /\ final_img_url' = [final_img_url EXCEPT ![r] = Strip(text)]
        /\ pc' = [pc EXCEPT ![r] = "get2"]
        /\ log' = [log EXCEPT ![r] =
                      Call(Return(log[r], IF StartsWithHttp(text) THEN "url" ELSE "nonhttp"),
                           Ev("get2", idx[r], 0, 0, Strip(text)))]
        /\ UNCHANGED <<cfgVars, idx, image_bytes, temp_file_path, attempt,
                       send_success, runVars, storeVars, now>>

\* lines 142-145 and 148
TextRead(r) ==
    /\ pc[r] = "text"
    /\ \E text \in TextBodies :
        IF StartsWithHttp(text)
        THEN /\ final_img_url' = [final_img_url EXCEPT ![r] = Strip(text)]
             /\ pc' = [pc EXCEPT ![r] = "get2"]
             /\ log' = [log EXCEPT ![r] =
                           Call(Return(log[r], "url"), Ev("get2", idx[r], 0, 0, Strip(text)))]
             /\ UNCHANGED <<cfgVars, idx, image_bytes, temp_file_path, attempt,
                            send_success, runVars, storeVars, now>>
        ELSE Continue(r, Return(log[r], "nonhttp"))

\* line 136 or 145 raises -> "except: pass" and line 148, or line 194
Get2Raise(r) ==
    /\ pc[r] = "get2"
    /\ Continue(r, Return(log[r], "raise"))

\* lines 136-137, 145-146: the secondary response arrives, its body is read
Get2Response(r) ==
    /\ pc[r] = "get2"
    /\ pc' = [pc EXCEPT ![r] = "read2"]
    /\ UNCHANGED <<cfgVars, idx, final_img_url, image_bytes, temp_file_path, attempt,
                   send_success, runVars, storeVars, now, log>>

\* line 137, 140 or 146 raises
ReadRaise(r) ==
    /\ pc[r] \in {"read", "read2"}
    /\ Continue(r, Return(log[r], "raise"))

\* variant: line 148 is missing, an empty body is persisted and sent
ReadBytes_NoEmptyCheck(r) ==
    /\ pc[r] \in {"read", "read2"}
    /\ \E b \in Bodies, compress_enable \in BOOLEAN, pil \in PilResults :
        LET data == _compress_image(b, compress_enable, pil)
            path == [id |-> uuid_ctr + 1, ext |-> FileExt(data)]
        IN  /\ image_bytes' = [image_bytes EXCEPT ![r] = data]
            /\ uuid_ctr' = uuid_ctr + 1
            /\ temp_file_path' = [temp_file_path EXCEPT ![r] = path]
            /\ pc' = [pc EXCEPT ![r] = "open"]
            /\ log' = [log EXCEPT ![r] =
                          Call(Return(log[r], IF Falsy(b) THEN "empty" ELSE "bytes"),
                               Ev("open", idx[r], 0, path.id, EmptyStr))]
            /\ UNCHANGED <<cfgVars, idx, final_img_url, attempt, send_success,
                           runVars, files, tasks, ctime, now>>

\* variant: the file is named after the position of its endpoint
ReadBytes_NameFromIndex(r) ==
    /\ pc[r] \in {"read", "read2"}
    /\ \E b \in Bodies, compress_enable \in BOOLEAN, pil \in PilResults :
        IF Falsy(b)
        THEN Continue(r, Return(log[r], "empty"))
        ELSE LET data == _compress_image(b, compress_enable, pil)
                 path == [id |-> idx[r], ext |-> FileExt(data)]
             IN  /\ image_bytes' = [image_bytes EXCEPT ![r] = data]
                 /\ uuid_ctr' = uuid_ctr + 1
                 /\ temp_file_path' = [temp_file_path EXCEPT ![r] = path]
                 /\ pc' = [pc EXCEPT ![r] = "open"]
                 /\ log' = [log EXCEPT ![r] =
                               Call(Return(log[r], "bytes"),
                                    Ev("open", idx[r], 0, path.id, EmptyStr))]
                 /\ UNCHANGED <<cfgVars, idx, final_img_url, attempt, send_success,
                                runVars, files, tasks, ctime, now>>

\* lines 137/140/146 return b, then lines 148-160: an empty body is a miss;
\* otherwise compress (cfg["compress_enable"] is read at the call, line 52),
\* sniff the extension, draw a fresh name and open the file
ReadBytes(r) ==
    /\ pc[r] \in {"read", "read2"}
    /\ \E b \in Bodies, compress_enable \in BOOLEAN, pil \in PilResults :
        IF Falsy(b)
        THEN Continue(r, Return(log[r], "empty"))
        ELSE LET data == _compress_image(b, compress_enable, pil)
                 path == [id |-> uuid_ctr + 1, ext |-> FileExt(data)]
             IN  /\ image_bytes' = [image_bytes EXCEPT ![r] = data]
                 /\ uuid_ctr' = uuid_ctr + 1
                 /\ temp_file_path' = [temp_file_path EXCEPT ![r] = path]
                 /\ pc' = [pc EXCEPT ![r] = "open"]
                 /\ log' = [log EXCEPT ![r] =
                               Call(Return(log[r], "bytes"),
                                    Ev("open", idx[r], 0, path.id, EmptyStr))]
                 /\ UNCHANGED <<cfgVars, idx, final_img_url, attempt, send_success,
                                runVars, files, tasks, ctime, now>>

\* line 160 raises: no file was created
OpenRaise(r) ==
    /\ pc[r] = "open"
    /\ Continue(r, Return(log[r], "raise"))

\* line 160 returns: the file exists (empty); line 161 writes it
OpenOk(r) ==
    /\ pc[r] = "open"
    /\ files' = files \cup {temp_file_path[r]}
    /\ ctime' = (temp_file_path[r].id :> now) @@ ctime
    /\ pc' = [pc EXCEPT ![r] = "write"]
    /\ log' = [log EXCEPT ![r] =
                  Call(Return(log[r], "ok"), Ev("write", idx[r], 0, temp_file_path[r].id, EmptyStr))]
    /\ UNCHANGED <<cfgVars, idx, final_img_url, image_bytes, temp_file_path, attempt,
                   send_success, runVars, tasks, uuid_ctr, now>>

\* line 161 raises: the (partial) file stays, the finally clause sees it
WriteRaise(r) ==
    /\ pc[r] = "write"
    /\ Continue(r, Return(log[r], "raise"))

\* lines 161-173: written; the first send attempt
WriteOk(r) ==
    /\ pc[r] = "write"
    /\ attempt' = [attempt EXCEPT ![r] = 0]
    /\ send_success' = [send_success EXCEPT ![r] = FALSE]
    /\ pc' = [pc EXCEPT ![r] = "send"]
    /\ log' = [log EXCEPT ![r] =
                  Call(Return(log[r], "ok"), Ev("send", idx[r], 0, temp_file_path[r].id, EmptyStr))]
    /\ UNCHANGED <<cfgVars, idx, final_img_url, image_bytes, temp_file_path, runVars,
                   storeVars, now>>

\* variant: the break of line 187 is missing, the loop goes on after a success
SendOk_NoBreak(r) ==
    /\ pc[r] = "send"
    /\ Continue(r, Return(log[r], "ok"))

\* lines 173-175, 185-187, 196-203: delivered; break out of both loops (the
\* else clause of the for is skipped)
SendOk(r) ==
    /\ pc[r] = "send"
    /\ send_success' = [send_success EXCEPT ![r] = TRUE]
    /\ Finally(r)
    /\ Leave(r, Return(log[r], "ok"), FALSE)

\* variant: one retry too many (attempt <= max_retries)
SendRaiseRetry_OneMore(r) ==
    /\ pc[r] = "send"
    /\ attempt[r] <= send_retries
    /\ pc' = [pc EXCEPT ![r] = "sleep"]
    /\ wake' = [wake EXCEPT ![r] = now + RetrySleep]
    /\ log' = [log EXCEPT ![r] =
                  Call(Return(log[r], "raise"), Ev("sleep", idx[r], RetrySleep, 0, EmptyStr))]
    /\ UNCHANGED <<cfgVars, idx, final_img_url, image_bytes, temp_file_path, attempt,
                   send_success, session, raised, storeVars, now>>

\* lines 176-180: the send raised and a retry is left: sleep
SendRaiseRetry(r) ==
    /\ pc[r] = "send"
    /\ attempt[r] < send_retries
    /\ pc' = [pc EXCEPT ![r] = "sleep"]
    /\ wake' = [wake EXCEPT ![r] = now + RetrySleep]
    /\ log' = [log EXCEPT ![r] =
                  Call(Return(log[r], "raise"), Ev("sleep", idx[r], RetrySleep, 0, EmptyStr))]
    /\ UNCHANGED <<cfgVars, idx, final_img_url, image_bytes, temp_file_path, attempt,
                   send_success, session, raised, storeVars, now>>

\* line 180 returns, line 171 takes the next attempt, line 173 sends again
SleepOver(r) ==
    /\ pc[r] = "sleep"
    /\ now >= wake[r]
    /\ attempt' = [attempt EXCEPT ![r] = attempt[r] + 1]
    /\ pc' = [pc EXCEPT ![r] = "send"]
    /\ log' = [log EXCEPT ![r] =
                  Call(Return(log[r], "ok"),
                       Ev("send", idx[r], attempt[r] + 1, temp_file_path[r].id, EmptyStr))]
    /\ UNCHANGED <<cfgVars, idx, final_img_url, image_bytes, temp_file_path,
                   send_success, runVars, storeVars, now>>

\* lines 176-183, 188-191: the last attempt raised; send the direct link
SendRaiseLast(r) ==
    /\ pc[r] = "send"
    /\ ~(attempt[r] < send_retries)
    /\ pc' = [pc EXCEPT ![r] = "fallback"]
    /\ log' = [log EXCEPT ![r] =
                  Call(Return(log[r], "raise"),
                       Ev("fallback", idx[r], send_retries, 0, final_img_url[r]))]
    /\ UNCHANGED <<cfgVars, idx, final_img_url, image_bytes, temp_file_path, attempt,
                   send_success, runVars, storeVars, now>>

\* variant: the return of line 192 is missing, the loop goes on
FallbackOk_NoReturn(r) ==
    /\ pc[r] = "fallback"
    /\ Continue(r, Return(log[r], "ok"))

\* lines 191-192, 196-203: the link was sent; return
FallbackOk(r) ==
    /\ pc[r] = "fallback"
    /\ Finally(r)
    /\ Leave(r, Return(log[r], "ok"), FALSE)
    /\ UNCHANGED send_success

\* line 191 raises: caught at line 194, the loop goes on
FallbackRaise(r) ==
    /\ pc[r] = "fallback"
    /\ Continue(r, Return(log[r], "raise"))

\* line 205 returns
NoticeOk(r) ==
    /\ pc[r] = "notice"
    /\ Leave(r, Return(log[r], "ok"), FALSE)
    /\ UNCHANGED <<send_success, tasks>>

\* line 205 raises: nothing catches it
NoticeRaise(r) ==
    /\ pc[r] = "notice"
    /\ Leave(r, Return(log[r], "raise"), TRUE)
    /\ UNCHANGED <<send_success, tasks>>

\* lines 199-202: a delayed_delete task wakes up and removes its file; a
\* failing os.remove is swallowed
\* variant: the task reads the path from a variable all tasks share, which
\* holds the newest file
Cleanup_SharedPath(t) ==
    /\ t \in tasks
    /\ now >= t.due
    /\ files' = { p \in files : \E q \in files : q.id > p.id }
    /\ tasks' = tasks \ {t}
    /\ UNCHANGED <<cfgVars, localVars, runVars, uuid_ctr, ctime, now, log>>

\* variant: a failing os.remove is not caught
Cleanup_Propagates(t) ==
    /\ t \in tasks
    /\ now >= t.due
    /\ files' = files \ {t.path}
    /\ tasks' = tasks \ {t}
    /\ raised' = [r \in Runs |-> raised[r] \/ t.path \notin files]
    /\ UNCHANGED <<cfgVars, localVars, session, wake, uuid_ctr, ctime, now, log>>

Cleanup(t) ==
    /\ t \in tasks
    /\ now >= t.due
    /\ files' = files \ {t.path}
    /\ tasks' = tasks \ {t}
    /\ UNCHANGED <<cfgVars, localVars, runVars, uuid_ctr, ctime, now, log>>

\* the timers that are pending: the sleeping runs and the cleanup tasks
Timers == { wake[r] : r \in { q \in Runs : pc[q] = "sleep" } } \cup { t.due : t \in tasks }

\* time passes up to the next timer.  Time is counted in the units of the two
\* sleeps: network, file and channel calls return within the current unit, so
\* the clock moves only when every run is suspended in asyncio.sleep or has
\* ended, and a timer that is due runs before the clock moves on.
Tick ==
    /\ now < MaxTime
    /\ Timers # {}
    /\ \A d \in Timers : d > now
    /\ \A r \in Runs : pc[r] \in {"done", "sleep", "off", "msg", "cooled", "noapi"}
    /\ LET d == CHOOSE d \in Timers : \A e \in Timers : d <= e
       IN  now' = IF d <= MaxTime THEN d ELSE MaxTime
    /\ UNCHANGED <<cfgVars, localVars, runVars, storeVars, log>>

\* the steps of the pipeline, of the cleanup tasks and of the clock
Steps ==
    \/ \E r \in Runs : Get1Raise(r)
    \/ \E r \in Runs : Get1Response(r)
    \/ \E r \in Runs : JsonRaise(r)
    \/ \E r \in Runs : JsonParsed(r)
    \/ \E r \in Runs : TextRaise(r)
    \/ \E r \in Runs : TextRead(r)
    \/ \E r \in Runs : Get2Raise(r)
    \/ \E r \in Runs : Get2Response(r)
    \/ \E r \in Runs : ReadRaise(r)
    \/ \E r \in Runs : ReadBytes(r)
    \/ \E r \in Runs : OpenRaise(r)
    \/ \E r \in Runs : OpenOk(r)
    \/ \E r \in Runs : WriteRaise(r)
    \/ \E r \in Runs : WriteOk(r)
    \/ \E r \in Runs : SendOk(r)
    \/ \E r \in Runs : SendRaiseRetry(r)
    \/ \E r \in Runs : SleepOver(r)
    \/ \E r \in Runs : SendRaiseLast(r)
    \/ \E r \in Runs : FallbackOk(r)
    \/ \E r \in Runs : FallbackRaise(r)
    \/ \E r \in Runs : NoticeOk(r)
    \/ \E r \in Runs : NoticeRaise(r)
    \/ \E t \in tasks : Cleanup(t)
    \/ Tick

Next ==
    \/ \E r \in Runs : Start(r)
    \/ Steps

Spec == Init /\ [][Next]_vars

\* ------------------------------------------------------- reading the log
Pos(r)       == 1..Len(log[r])
Is(r, k, op) == log[r][k].op = op
Last(r, k)   == k = Len(log[r])

\* an entry that consists of whitespace only
IsBlank(e) == \A q \in 1..Len(e) : e[q] = " "

\* results of a GET that yield no image bytes for its endpoint
MissRes == {"raise", "badjson", "nourl", "nonhttp", "empty"}

\* an image send, a link send or a notice that the channel accepted
Outcomes(r) == { k \in Pos(r) : log[r][k].op \in {"send", "fallback", "notice"}
                               /\ log[r][k].res = "ok" }

\* the last image attempt of a delivery raised
Exhausted(r, k) ==
    /\ Is(r, k, "send")
    /\ log[r][k].n = send_retries
    /\ log[r][k].res = "raise"

\* -------------------------------------------------------------------- C1
\* C1: once all send_retries + 1 image attempts of an endpoint have failed,
\* the run makes exactly one fallback send, carrying the retry count and the
\* endpoint's final URL, and ends: no request and no further fallback follows,
\* whatever the channel does.  (Violated: a raising fallback send is caught at
\* line 194 and the loop goes on.)
C1_FallbackEndsRun ==
    \A r \in Runs : \A k \in Pos(r) :
        Exhausted(r, k) =>
            /\ k + 1 \in Pos(r)
            /\ Is(r, k + 1, "fallback")
            /\ log[r][k + 1].n = send_retries
            /\ StartsWithHttp(log[r][k + 1].arg)
            /\ \A m \in Pos(r) : m > k + 1 => log[r][m].op \notin {"get1", "get2", "fallback"}

\* -------------------------------------------------------------------- C2
\* image bytes came back for endpoint i
Resolved(r, i) ==
    \E k \in Pos(r) : log[r][k].op \in {"get1", "get2"} /\ log[r][k].i = i
                      /\ log[r][k].res = "bytes"

\* the first attempt for endpoint log[r][k].i succeeded and no earlier
\* endpoint resolved bytes
FirstTryDelivered(r, k) ==
    /\ Is(r, k, "send")
    /\ log[r][k].n = 0
    /\ log[r][k].res = "ok"
    /\ \A i \in 1..(log[r][k].i - 1) : ~Resolved(r, i)

\* C2: when every endpoint before k resolves no bytes and endpoint k resolves
\* bytes and is delivered on the first attempt, the run makes exactly one
\* image send, no request to an endpoint after k, no fallback send and no
\* failure notice, and it has ended, without an exception, as Delivered.
C2_FirstSuccessStops ==
    \A r \in Runs : \A k \in Pos(r) :
        FirstTryDelivered(r, k) =>
            /\ Cardinality({ m \in Pos(r) : Is(r, m, "send") }) = 1
            /\ \A m \in Pos(r) : log[r][m].op \notin {"fallback", "notice", "sleep"}
            /\ \A m \in Pos(r) : log[r][m].i <= log[r][k].i
            /\ Last(r, k)
            /\ pc[r] = "done" /\ ~raised[r]
            /\ Outcomes(r) = {k}

\* endpoint 2 is delivered at once after endpoint 1 missed
C2_Witness ==
    \E r \in Runs : \E k \in Pos(r) :
        /\ FirstTryDelivered(r, k)
        /\ log[r][k].i = 2
        /\ \E m \in Pos(r) : Is(r, m, "get1") /\ log[r][m].i = 1 /\ log[r][m].res \in MissRes

\* -------------------------------------------------------------------- C3
\* C3 as stated: the failure notice is sent only if the list was exhausted,
\* no endpoint ever resolved image bytes, no fallback send was ever performed
\* and no delivery phase (persist, send attempts) ran.
C3_NoticeOnlyWithoutBytes ==
    \A r \in Runs : \A k \in Pos(r) :
        Is(r, k, "notice") =>
            /\ idx[r] = Len(api_list[r]) + 1
            /\ \A i \in 1..Len(api_list[r]) : ~Resolved(r, i)
            /\ \A m \in Pos(r) : log[r][m].op \notin {"open", "write", "send", "fallback"}

\* C3 amended: the failure notice is sent only if the list was exhausted
\* (every non-blank entry was requested, in a run that made at most that one
\* notice send) and, before it, no image send had succeeded and no fallback
\* send had returned.
C3_NoticeOnlyWithoutOutcome ==
    \A r \in Runs : \A k \in Pos(r) :
        Is(r, k, "notice") =>
            /\ idx[r] = Len(api_list[r]) + 1
            /\ \A i \in 1..Len(api_list[r]) :
                   IsBlank(api_list[r][i]) \/ \E m \in 1..(k - 1) : Is(r, m, "get1") /\ log[r][m].i = i
            /\ \A m \in 1..(k - 1) : log[r][m].res # "pending"
            /\ \A m \in 1..(k - 1) :
                   log[r][m].op \in {"send", "fallback"} => log[r][m].res = "raise"
            /\ Last(r, k)

\* the notice follows an endpoint whose bytes were resolved
C3_Witness ==
    \E r \in Runs : \E k \in Pos(r) :
        /\ Is(r, k, "notice")
        /\ \E i \in 1..Len(api_list[r]) : Resolved(r, i)
        /\ \E m \in Pos(r) : Is(r, m, "fallback") /\ log[r][m].res = "raise"

\* -------------------------------------------------------------------- C4
\* C4: whatever fails (requests, file store, channel, including the fallback
\* send and the notice send), no exception leaves _process_and_send.
\* (Violated: the notice send of line 205 is outside every try.)
C4_NoPropagation ==
    \A r \in Runs : ~raised[r]

\* -------------------------------------------------------------------- C5
\* C5 as stated: a persisted file no longer exists 16 or more time units
\* after it was created (a file whose removal is due at exactly 16 is still
\* counted as gone in time).
C5_GoneAfter16FromCreation ==
    \A p \in files : now - ctime[p.id] <= CleanupDelay + 1

\* the run that owns file p is still in its delivery phase
InDelivery(p) ==
    \E r \in Runs : temp_file_path[r] = p /\ pc[r] \in {"write", "send", "sleep", "fallback"}

\* C5 amended: a persisted file no longer exists 16 or more time units after
\* the try block of its endpoint was left (after the last send for it, where
\* the cleanup task is scheduled), for every outcome of the delivery and every
\* send_retries: a file that exists is either still in its delivery phase or
\* has a cleanup task that was scheduled less than 16 units ago.
C5_GoneAfter16FromSchedule ==
    \A p \in files :
        \/ InDelivery(p)
        \/ \E t \in tasks : t.path = p /\ now - t.sched < CleanupDelay + 1

\* a file has been removed by its task, 15 units after a failed delivery
C5_Witness ==
    \E r \in Runs : \E k \in Pos(r) :
        /\ Is(r, k, "fallback")
        /\ \E m \in Pos(r) : Is(r, m, "write") /\ log[r][m].i = log[r][k].i
                             /\ log[r][m].res = "ok"
                             /\ log[r][m].f \in DOMAIN ctime
                             /\ \A p \in files : p.id # log[r][m].f
                             /\ now >= ctime[log[r][m].f] + send_retries + CleanupDelay
        /\ send_retries = MaxRetries

\* -------------------------------------------------------------------- C6
\* the image sends made for file f, up to position k
SendsOf(r, f, k) == { m \in 1..k : Is(r, m, "send") /\ log[r][m].f = f }

\* C6: for one resolved image there are at most send_retries + 1 image sends
\* (the attempts are numbered 0, 1, ... without gaps and never beyond
\* send_retries); nothing follows a successful one; a raising send only leads
\* to the next step (a sleep and another send of the same file while attempts
\* are left, the fallback send after the last one) and never leaves the run;
\* every sleep is asyncio.sleep(1) and comes right after a failed attempt that
\* was not the last.
C6_BoundedRetries ==
    \A r \in Runs :
        /\ temp_file_path[r] # NoPath =>
               Cardinality(SendsOf(r, temp_file_path[r].id, Len(log[r]))) <= send_retries + 1
        /\ \A k \in Pos(r) :
            /\ Is(r, k, "send") =>
                /\ log[r][k].n \in 0..send_retries
                /\ k > 1
                /\ log[r][k].n = 0 => Is(r, k - 1, "write") /\ log[r][k - 1].f = log[r][k].f
                /\ log[r][k].n > 0 =>
                    /\ Is(r, k - 1, "sleep")
                    /\ Is(r, k - 2, "send")
                    /\ log[r][k - 2].f = log[r][k].f
                    /\ log[r][k - 2].n = log[r][k].n - 1
                /\ log[r][k].res = "ok" => Last(r, k) /\ pc[r] = "done" /\ ~raised[r]
                /\ log[r][k].res = "raise" =>
                    /\ k + 1 \in Pos(r)
                    /\ IF log[r][k].n < send_retries
                       THEN Is(r, k + 1, "sleep")
                       ELSE Is(r, k + 1, "fallback")
            /\ Is(r, k, "sleep") =>
                /\ k > 1
                /\ Is(r, k - 1, "send")
                /\ log[r][k - 1].res = "raise"
                /\ log[r][k].n = 1
                /\ log[r][k].res = "pending" => pc[r] = "sleep" /\ wake[r] <= now + 1
                /\ log[r][k].res # "pending" => k + 1 \in Pos(r) /\ Is(r, k + 1, "send")

\* all send_retries + 1 attempts were made, with a sleep between each two
C6_Witness ==
    \E r \in Runs : \E k \in Pos(r) :
        /\ send_retries = MaxRetries
        /\ Exhausted(r, k)
        /\ Cardinality(SendsOf(r, log[r][k].f, k)) = send_retries + 1
        /\ Cardinality({ m \in Pos(r) : Is(r, m, "sleep") /\ log[r][m].i = log[r][k].i })
               = send_retries
        /\ Is(r, k + 1, "fallback")

\* -------------------------------------------------------------------- C7
\* C7: a run that has ended produced exactly one outcome (an image send, a
\* fallback send or a failure notice that the channel accepted), and it is the
\* last thing the run did.  (Violated: a raising notice send, see C4, ends the
\* run with no outcome.)
C7_ExactlyOneOutcome ==
    \A r \in Runs :
        pc[r] = "done" =>
            /\ Cardinality(Outcomes(r)) = 1
            /\ \A k \in Outcomes(r) : Last(r, k)

\* -------------------------------------------------------------------- C8
AllBlank(list) == \A i \in 1..Len(list) : IsBlank(list[i])

\* C8: for an empty or all-blank list the run issues no request, persists no
\* file and makes exactly one send, the failure notice.
C8_BlankList ==
    \A r \in Runs :
        AllBlank(api_list[r]) /\ session[r] # "none" =>
            /\ Len(log[r]) = 1
            /\ Is(r, 1, "notice")
            /\ temp_file_path[r] = NoPath
            /\ uuid_ctr = 0 /\ files = {} /\ DOMAIN ctime = {}

\* the run over a list of blank entries has ended
C8_Witness ==
    \E r \in Runs :
        /\ Len(api_list[r]) = MaxLen
        /\ AllBlank(api_list[r])
        /\ pc[r] = "done"
        /\ log[r][1].res = "ok"

\* -------------------------------------------------------------------- C9
\* C9: when an endpoint is a miss (a request raises, the JSON does not parse
\* or names no URL, the text does not start with http, the body is empty), no
\* file call and no send is made for it, nothing leaves the run, and the next
\* call is the primary request of the next non-blank entry (or, the list being
\* exhausted, the failure notice).
C9_MissGoesOn ==
    \A r \in Runs : \A k \in Pos(r) :
        log[r][k].op \in {"get1", "get2"} /\ log[r][k].res \in MissRes =>
            /\ \A m \in Pos(r) :
                   log[r][m].i = log[r][k].i =>
                       log[r][m].op \notin {"open", "write", "send", "sleep", "fallback"}
            /\ k + 1 \in Pos(r)
            /\ log[r][k + 1].op \in {"get1", "notice"}
            /\ log[r][k + 1].i > log[r][k].i
            /\ \A i \in (log[r][k].i + 1)..(log[r][k + 1].i - 1) : IsBlank(api_list[r][i])
            /\ Is(r, k + 1, "get1") =>
                   /\ log[r][k + 1].i <= Len(api_list[r])
                   /\ ~IsBlank(api_list[r][log[r][k + 1].i])
            /\ Is(r, k + 1, "notice") => log[r][k + 1].i = Len(api_list[r]) + 1

\* an empty body from the secondary request, and the run went on to endpoint 2
C9_Witness ==
    \E r \in Runs : \E k \in Pos(r) :
        /\ Is(r, k, "get2")
        /\ log[r][k].res = "empty"
        /\ log[r][k].i = 1
        /\ Is(r, k + 1, "get1")
        /\ log[r][k + 1].i = 2

\* ------------------------------------------------------------------- C10
Requests(r, i) == { m \in Pos(r) : log[r][m].op \in {"get1", "get2"} /\ log[r][m].i = i }

\* C10: the primary requests go over the non-blank entries in list order,
\* each at most once and none skipped; an endpoint causes 1 or 2 requests; a
\* secondary request comes right after its endpoint's primary request, whose
\* response was received and named the URL it asks for.
C10_RequestOrder ==
    \A r \in Runs : \A k \in Pos(r) :
        /\ Is(r, k, "get1") =>
            /\ log[r][k].i \in 1..Len(api_list[r])
            /\ ~IsBlank(api_list[r][log[r][k].i])
            /\ \A m \in 1..(k - 1) : Is(r, m, "get1") => log[r][m].i < log[r][k].i
            /\ \A i \in 1..(log[r][k].i - 1) :
                   IsBlank(api_list[r][i]) \/ \E m \in 1..(k - 1) : Is(r, m, "get1") /\ log[r][m].i = i
            /\ Cardinality(Requests(r, log[r][k].i)) \in {1, 2}
        /\ Is(r, k, "get2") =>
            /\ k > 1
            /\ Is(r, k - 1, "get1")
            /\ log[r][k - 1].i = log[r][k].i
            /\ log[r][k - 1].res = "url"
            /\ StartsWithHttp(log[r][k].arg)

\* two endpoints were requested, the first with a secondary request
C10_Witness ==
    \E r \in Runs :
        /\ Cardinality(Requests(r, 1)) = 2
        /\ Cardinality(Requests(r, 2)) = 1

\* ------------------------------------------------------------------- C11
\* the run is inside _process_and_send
Entered(r) == pc[r] \notin {"off", "msg", "cooled", "noapi", "call"}

\* C11: a run has no session before it enters, one open session from its
\* first request to its last call, and a closed one once it has ended, on
\* every way out (break, return, exhausted list, exception); a request is
\* pending only while the session is open.
C11_SessionScoped ==
    \A r \in Runs :
        /\ ~Entered(r) => session[r] = "none" /\ log[r] = <<>>
        /\ Entered(r) /\ pc[r] # "done" => session[r] = "open"
        /\ pc[r] = "done" => session[r] = "closed"
        /\ \A k \in Pos(r) :
               log[r][k].op \in {"get1", "get2"} /\ log[r][k].res = "pending" =>
                   session[r] = "open"

\* the run ended by an exception, after requests were made on the session
C11_Witness ==
    \E r \in Runs :
        /\ pc[r] = "done"
        /\ raised[r]
        /\ session[r] = "closed"
        /\ \E k \in Pos(r) : Is(r, k, "get2")

\* ------------------------------------------------ the helpers on their own
\* nothing of the pipeline runs
Parked ==
    /\ api_list = [r \in Runs |-> <<>>]
    /\ send_retries = 0
    /\ pc = [r \in Runs |-> "off"]
    /\ sender = [r \in Runs |-> "u1"]
    /\ Idle

pipeVars == <<api_list, send_retries, sender, cooldowns, arrived, unlinked, localVars,
              runVars, storeVars, now, log>>

\* ---- _extract_url_from_json
JsonKeys   == {"original", "url", "data"}
JsonInner  == JDict(<< <<"original", JStr(UrlR)>> >>)
JsonValues == { JStr(UrlA), JStr(UrlI), JStr(<<"x">>), JOther,
                JsonInner,
                JList(<< <<"", JsonInner>> >>),
                JDict(<< <<"data", JsonInner>> >>),
                JDict(<< <<"original", JStr(<<"x">>)>>, <<"url", JOther>> >>) }

\* a mapping has each key once
DistinctKeys(ks) == \A i, j \in 1..Len(ks) : ks[i][1] = ks[j][1] => i = j

JsonInputs ==
    { JDict(ks) : ks \in { q \in SeqsUpTo(JsonKeys \X JsonValues, MaxKids) : DistinctKeys(q) } }
    \cup { JList(ks) : ks \in SeqsUpTo({""} \X JsonValues, MaxKids) }

InitExtract ==
    /\ fn_arg \in JsonInputs
    /\ fn_ret = NoCall
    /\ Parked

Extract ==
    /\ fn_ret = NoCall
    /\ fn_ret' = << _extract_url_from_json(fn_arg) >>
    /\ UNCHANGED <<fn_arg, pipeVars>>

NextExtract == Extract
SpecExtract == InitExtract /\ [][NextExtract]_vars

\* the mappings of a value, at every depth
RECURSIVE Mappings(_)
Mappings(data) ==
    IF data.t \notin {"list", "dict"} THEN {}
    ELSE (IF data.t = "dict" THEN {data} ELSE {})
         \cup UNION { Mappings(data.kids[j][2]) : j \in 1..Len(data.kids) }

AllKeys == { PriorityKeys[k] : k \in 1..Len(PriorityKeys) }

\* the http strings some mapping of data has under one of keys
Hits(data, keys) ==
    UNION { { d.kids[i][2].s : i \in { j \in 1..Len(d.kids) :
                                         /\ d.kids[j][1] \in keys
                                         /\ d.kids[j][2].t = "str"
                                         /\ StartsWithHttp(d.kids[j][2].s) } }
            : d \in Mappings(data) }

\* ------------------------------------------------------------------- C14
\* C14 as stated: whenever some mapping of the input, at any depth, has an
\* http string under "original", the result is such an "original" value.
C14_OriginalAnyLevel ==
    fn_ret # NoCall /\ Hits(fn_arg, {"original"}) # {} =>
        fn_ret[1] \in Hits(fn_arg, {"original"})

\* C14 amended: the priority order holds within one mapping.  When the input
\* mapping itself has an http string under "original" that value is returned,
\* whatever its other keys and nested values hold; a nested "original" is
\* returned when no mapping has an http string under another priority key.
C14_OriginalPerMapping ==
    fn_ret # NoCall =>
        /\ fn_arg.t = "dict" /\ KeyHit(fn_arg.kids, "original") =>
               fn_ret[1] = DictGet(fn_arg.kids, "original").s
        /\ Hits(fn_arg, {"original"}) # {} /\ Hits(fn_arg, AllKeys \ {"original"}) = {} =>
               fn_ret[1] \in Hits(fn_arg, {"original"})

\* the input has url before original, both http strings, and original won
C14_Witness ==
    /\ fn_ret # NoCall
    /\ fn_arg.t = "dict"
    /\ Len(fn_arg.kids) = 2
    /\ fn_arg.kids[1][1] = "url" /\ KeyHit(fn_arg.kids, "url")
    /\ KeyHit(fn_arg.kids, "original")
    /\ DictGet(fn_arg.kids, "url").s # DictGet(fn_arg.kids, "original").s
    /\ fn_ret[1] = DictGet(fn_arg.kids, "original").s

\* ------------------------------------------------------------------- C19
\* C19: the result is "" exactly when no mapping of the input, at any depth,
\* has an http string under a priority key; a non-empty result is one of
\* those strings.
C19_EmptyIffNoHit ==
    fn_ret # NoCall =>
        /\ fn_ret[1] = EmptyStr <=> Hits(fn_arg, AllKeys) = {}
        /\ fn_ret[1] # EmptyStr => fn_ret[1] \in Hits(fn_arg, AllKeys)

\* the only hit is in the second member, two levels down
C19_Witness ==
    /\ fn_ret # NoCall
    /\ Len(fn_arg.kids) = 2
    /\ Hits(fn_arg.kids[1][2], AllKeys) = {}
    /\ fn_arg.kids[2][1] \notin AllKeys
    /\ fn_arg.kids[2][2].t = "dict"
    /\ ~ \E k \in AllKeys : KeyHit(fn_arg.kids[2][2].kids, k)
    /\ fn_ret[1] = UrlR

\* ---- _compress_image
\* lengths around the threshold, and the first bytes of three kinds of file
CompressLens  == { 0, 1, compress_threshold * MB - 1, compress_threshold * MB,
                   compress_threshold * MB + 1, 2 * compress_threshold * MB }
CompressHeads == { PngMagic, <<71, 73, 70, 56>>, <<0, 0, 0, 0>> }

Min(a, b) == IF a < b THEN a ELSE b

CompressInputs ==
    { [image_data |-> [head |-> SubSeq(h, 1, Min(n, Len(h))), len |-> n],
       enable |-> e, pil |-> p] :
          h \in CompressHeads, n \in CompressLens, e \in BOOLEAN, p \in PilResults }

InitCompress ==
    /\ fn_arg \in CompressInputs
    /\ fn_ret = NoCall
    /\ Parked

Compress ==
    /\ fn_ret = NoCall
    /\ fn_ret' = << _compress_image(fn_arg.image_data, fn_arg.enable, fn_arg.pil) >>
    /\ UNCHANGED <<fn_arg, pipeVars>>

NextCompress == Compress
SpecCompress == InitCompress /\ [][NextCompress]_vars

\* ------------------------------------------------------------------- C15
\* C15: _compress_image returns (it never raises) and the result is its
\* input, unchanged, when compression is disabled, when the input is no
\* longer than threshold x 1,048,576 bytes (equality included), and when
\* decoding or encoding fails; the result differs from the input only for
\* an input strictly above the threshold that was decoded and re-encoded.
C15_CompressGuards ==
    fn_ret # NoCall =>
        /\ Len(fn_ret) = 1
        /\ \/ ~fn_arg.enable
           \/ fn_arg.image_data.len <= compress_threshold * MB
           \/ fn_arg.pil = PilFail
           => fn_ret[1] = fn_arg.image_data
        /\ fn_ret[1] # fn_arg.image_data =>
               /\ fn_arg.enable
               /\ fn_arg.image_data.len > compress_threshold * MB
               /\ fn_ret[1] = fn_arg.pil /\ fn_arg.pil # PilFail

\* an input of exactly the threshold, compression on, decodable: unchanged
C15_Witness ==
    /\ fn_ret # NoCall
    /\ fn_arg.enable
    /\ fn_arg.pil # PilFail
    /\ fn_arg.image_data.len = compress_threshold * MB
    /\ fn_ret[1] = fn_arg.image_data

\* ---- the file type test of lines 153-155
SniffBytes  == { 137, 80, 78, 71, 73, 70 }
SniffInputs == { [head |-> h, len |-> Len(h)] : h \in SeqsUpTo(SniffBytes, Len(PngMagic)) }

InitSniff ==
    /\ fn_arg \in SniffInputs
    /\ fn_ret = NoCall
    /\ Parked

Sniff ==
    /\ fn_ret = NoCall
    /\ fn_ret' = << FileExt(fn_arg) >>
    /\ UNCHANGED <<fn_arg, pipeVars>>

NextSniff == Sniff
SpecSniff == InitSniff /\ [][NextSniff]_vars

\* bytes.startswith
StartsWith(h, m) == Len(h) >= Len(m) /\ \A i \in 1..Len(m) : h[i] = m[i]

\* ------------------------------------------------------------------- C16
\* C16: the extension is png exactly when the bytes start with \x89PNG, gif
\* exactly when they start with GIF, and jpg in every other case, which
\* includes every sequence shorter than the signature it is compared with.
C16_SniffExt ==
    fn_ret # NoCall =>
        /\ fn_ret[1] = "png" <=> StartsWith(fn_arg.head, <<137, 80, 78, 71>>)
        /\ fn_ret[1] = "gif" <=> StartsWith(fn_arg.head, <<71, 73, 70>>)
        /\ fn_ret[1] = "jpg" <=> /\ ~StartsWith(fn_arg.head, <<137, 80, 78, 71>>)
                                 /\ ~StartsWith(fn_arg.head, <<71, 73, 70>>)
        /\ fn_arg.len < 3 => fn_ret[1] = "jpg"

\* three of the four PNG signature bytes, and nothing more: jpg
C16_Witness ==
    /\ fn_ret # NoCall
    /\ fn_arg.head = <<137, 80, 78>>
    /\ fn_ret[1] = "jpg"

\* ------------------------------------------------------------------- C18
\* every pending await returns or raises and every timer fires: a step that
\* stays possible is taken
SpecLive == Spec /\ WF_vars(Next)

\* the calls of run r for endpoint i with one of ops
CallsFor(r, i, ops) == { m \in Pos(r) : log[r][m].op \in ops /\ log[r][m].i = i }

\* a run that is not suspended at an await any more
Ended(r) == pc[r] \in {"off", "cooled", "noapi", "done"}

BoundedWork ==
    \A r \in Runs :
        /\ \A i \in 1..Len(api_list[r]) :
            /\ Cardinality(CallsFor(r, i, {"get1", "get2"})) <=
                   (IF IsBlank(api_list[r][i]) THEN 0 ELSE 2)
            /\ Cardinality(CallsFor(r, i, {"send"})) <= send_retries + 1
            /\ Cardinality(CallsFor(r, i, {"sleep"})) <= send_retries
            /\ Cardinality(CallsFor(r, i, {"open", "write", "fallback"})) <= 3
        /\ Cardinality({ m \in Pos(r) : Is(r, m, "notice") }) <= 1
        /\ idx[r] <= Len(api_list[r]) + 1

\* C18: every run terminates, provided each of its awaits returns or raises:
\* per non-blank endpoint it makes at most 2 requests, per delivery at most
\* send_retries + 1 image sends and send_retries sleeps, so its work is
\* bounded, and it ends.
C18_Terminates == []BoundedWork /\ <>[](\A r \in Runs : Ended(r))

\* a run that ended after the most work one endpoint can cause
C18_Witness ==
    \E r \in Runs :
        /\ pc[r] = "done"
        /\ send_retries > 0
        /\ \E i \in 1..Len(api_list[r]) :
            /\ Cardinality(CallsFor(r, i, {"get1", "get2"})) = 2
            /\ Cardinality(CallsFor(r, i, {"send"})) = send_retries + 1
            /\ Cardinality(CallsFor(r, i, {"sleep"})) = send_retries

\* ------------------------------------------------ on_message, concurrently
\* lines 26-33, at time now
_check_cooldown(user_id) ==
    IF cooldowns[user_id] # -1 /\ now - cooldowns[user_id] < cooldown
    THEN cooldown - (now - cooldowns[user_id])
    ELSE 0

\* lines 97-101: a matching message of a user who is cooling down is answered
\* with the time left; nothing is recorded
OnMessageCooldown(r) ==
    /\ pc[r] = "msg"
    /\ _check_cooldown(sender[r]) > 0
    /\ pc' = [pc EXCEPT ![r] = "cooled"]
    /\ arrived' = [arrived EXCEPT ![r] = now]
    /\ UNCHANGED <<api_list, send_retries, sender, cooldowns, fn_arg, fn_ret, unlinked,
                   idx, final_img_url, image_bytes, temp_file_path, attempt,
                   send_success, runVars, storeVars, now, log>>

\* lines 97-107: the trigger is recorded; the source has no endpoints
OnMessageNoApi(r) ==
    /\ pc[r] = "msg"
    /\ ~(_check_cooldown(sender[r]) > 0)
    /\ api_list[r] = <<>>
    /\ cooldowns' = [cooldowns EXCEPT ![sender[r]] = now]
    /\ pc' = [pc EXCEPT ![r] = "noapi"]
    /\ arrived' = [arrived EXCEPT ![r] = now]
    /\ UNCHANGED <<api_list, send_retries, sender, fn_arg, fn_ret, unlinked,
                   idx, final_img_url, image_bytes, temp_file_path, attempt,
                   send_success, runVars, storeVars, now, log>>

\* variant: the trigger is recorded when the pipeline has ended
OnMessagePipeline_RecordLater(r) ==
    /\ pc[r] = "msg"
    /\ ~(_check_cooldown(sender[r]) > 0)
    /\ api_list[r] # <<>>
    /\ arrived' = [arrived EXCEPT ![r] = now]
    /\ Enter(r)
    /\ UNCHANGED <<api_list, send_retries, sender, cooldowns, fn_arg, fn_ret, unlinked>>

\* lines 97-109: the trigger is recorded, then _process_and_send runs up to
\* its first await; there is no await between the check and the record
OnMessagePipeline(r) ==
    /\ pc[r] = "msg"
    /\ ~(_check_cooldown(sender[r]) > 0)
    /\ api_list[r] # <<>>
    /\ cooldowns' = [cooldowns EXCEPT ![sender[r]] = now]
    /\ arrived' = [arrived EXCEPT ![r] = now]
    /\ Enter(r)
    /\ UNCHANGED <<api_list, send_retries, sender, fn_arg, fn_ret, unlinked>>

\* how long nothing may happen before the next message comes
WaitSteps == {cooldown - 1, cooldown}

\* a message is still to come, every run is suspended in a sleep or has
\* ended, and time passes without a timer being passed over
Wait ==
    \E d \in WaitSteps :
        /\ \E r \in Runs : pc[r] = "msg"
        /\ \A r \in Runs : pc[r] \in {"msg", "cooled", "noapi", "sleep", "done"}
        /\ \A t \in Timers : now < t /\ now + d <= t
        /\ now + d <= MaxTime
        /\ now' = now + d
        /\ UNCHANGED <<cfgVars, localVars, runVars, storeVars, log>>

\* one endpoint at most for each of two messages
ConcLists == { <<>>, << <<" ">> \o UrlA \o <<" ">> >> }

\* two messages, of one user or of two, in either order; the source of the
\* second has an endpoint
InitConc ==
    /\ \E l \in ConcLists :
           api_list = [r \in Runs |-> IF r = 1 THEN l ELSE << <<" ">> \o UrlA \o <<" ">> >>]
    /\ send_retries = MaxRetries - 1
    /\ pc = [r \in Runs |-> "msg"]
    /\ \E u \in Users : sender = [r \in Runs |-> IF r = 1 THEN "u1" ELSE u]
    /\ fn_arg = NoCall /\ fn_ret = NoCall
    /\ Idle

NextConc ==
    \/ \E r \in Runs : OnMessageCooldown(r)
    \/ \E r \in Runs : OnMessageNoApi(r)
    \/ \E r \in Runs : OnMessagePipeline(r)
    \/ Wait
    \/ Steps

SpecConc == InitConc /\ [][NextConc]_vars

\* ------------------------------------------------------------------- C20
\* the message of run r passed the cooldown check
Accepted(r) == pc[r] \notin {"off", "call", "msg", "cooled"}

\* C20: two messages of one user that both passed the check (both reached
\* _process_and_send, or the reply that the source has no endpoints) were
\* handled at least cooldown apart, whatever the interleaving of their runs;
\* the trigger time of an accepted message is on record from the step that
\* accepted it.
C20_CooldownExclusive ==
    /\ \A r1, r2 \in Runs :
           r1 # r2 /\ sender[r1] = sender[r2] /\ Accepted(r1) /\ Accepted(r2) =>
               \/ arrived[r1] - arrived[r2] >= cooldown
               \/ arrived[r2] - arrived[r1] >= cooldown
    /\ \A r \in Runs :
           Accepted(r) => cooldowns[sender[r]] # -1 /\ cooldowns[sender[r]] >= arrived[r]

\* the second message of the user came exactly cooldown after the first, while
\* the pipeline of the first had not ended, and both are in the pipeline
C20_Witness ==
    \E r1, r2 \in Runs :
        /\ sender[r1] = sender[r2]
        /\ arrived[r1] # -1
        /\ arrived[r2] - arrived[r1] = cooldown
        /\ Entered(r1) /\ Entered(r2)
        /\ pc[r2] # "done"

\* ------------------------------------------------------------------- C13
\* C13: an attempt (one endpoint of one run) opens at most one file, and every
\* write and send of the attempt is for that file; two opens, of one run or
\* of two, never have the same name; a file has at most one pending cleanup
\* task.
C13_OneFreshFilePerAttempt ==
    /\ \A r \in Runs : \A k \in Pos(r) :
        /\ Is(r, k, "open") =>
            /\ \A m \in Pos(r) : Is(r, m, "open") /\ log[r][m].i = log[r][k].i => m = k
            /\ \A q \in Runs : \A m \in Pos(q) :
                   Is(q, m, "open") /\ log[q][m].f = log[r][k].f => q = r /\ m = k
        /\ log[r][k].op \in {"write", "send"} =>
               \E m \in 1..(k - 1) :
                   Is(r, m, "open") /\ log[r][m].i = log[r][k].i /\ log[r][m].f = log[r][k].f
    /\ \A p, q \in files : p.id = q.id => p = q
    /\ \A t1, t2 \in tasks : t1.path.id = t2.path.id => t1 = t2

\* two runs have each persisted a file; both files exist, each with its task
C13_Witness ==
    \E r1, r2 \in Runs :
        /\ r1 # r2
        /\ \E p, q \in files :
            /\ p.id # q.id
            /\ \E k \in Pos(r1) : Is(r1, k, "send") /\ log[r1][k].f = p.id
            /\ \E k \in Pos(r2) : Is(r2, k, "send") /\ log[r2][k].f = q.id
            /\ \E t1, t2 \in tasks : t1.path = p /\ t2.path = q

\* ------------------------------------------------------------------- C17
\* a run in its delivery phase has its file
DeliveryHasFile ==
    \A r \in Runs :
        pc[r] \in {"write", "send", "sleep", "fallback"} => temp_file_path[r] \in files

\* a task exists only for a file whose delivery phase is over, and is due 15
\* units after it was scheduled
TaskAfterDelivery ==
    \A t \in tasks : ~InDelivery(t.path) /\ t.due = t.sched + CleanupDelay

\* C17: a file is not deleted while a send of it is still to come: the task
\* is scheduled when the delivery phase of the attempt is over, it deletes 15
\* units or more after that, and only the file of its own attempt, also when
\* the runs of two messages interleave.
C17_DeleteAfterDelivery ==
    [][ /\ DeliveryHasFile'
        /\ TaskAfterDelivery'
        /\ files' # files /\ files' \subseteq files =>
               \E t \in tasks :
                   /\ tasks' = tasks \ {t}
                   /\ files' = files \ {t.path}
                   /\ now >= t.sched + CleanupDelay
                   /\ ~InDelivery(t.path) ]_vars

\* the file of one run was deleted by its task while the other run is in
\* its delivery phase with its own file
C17_Witness ==
    \E r1, r2 \in Runs :
        /\ r1 # r2
        /\ pc[r2] \in {"send", "sleep", "fallback"}
        /\ temp_file_path[r2] \in files
        /\ \E k \in Pos(r1) :
            /\ Is(r1, k, "send")
            /\ \A p \in files : p.id # log[r1][k].f
            /\ \A t \in tasks : t.path.id # log[r1][k].f

\* ------------------------------------------------------------------- C12
\* something else than the task removes a cache file whose task is pending,
\* so that os.remove of line 201 raises
Unlink(p) ==
    /\ p \in files
    /\ \E t \in tasks : t.path = p
    /\ files' = files \ {p}
    /\ unlinked' = unlinked \cup {p}
    /\ UNCHANGED <<api_list, send_retries, sender, cooldowns, arrived, fn_arg, fn_ret,
                   localVars, runVars, tasks, uuid_ctr, ctime, now, log>>

NextUnlink ==
    \/ Next
    \/ \E p \in files : Unlink(p)

SpecUnlink == Init /\ [][NextUnlink]_vars

\* C12: the cleanup is fire-and-forget.  The step in which a run ends leaves
\* the task of every file of the run pending, due later: the run did not wait
\* for it.  A step of a cleanup task, the one whose deletion fails included,
\* changes nothing of a run: not where it is, not what it reported, not
\* whether it raised.
C12_FireAndForget ==
    [][ /\ \A r \in Runs :
               pc[r] # "done" /\ pc'[r] = "done" =>
                   \A k \in Pos(r) :
                       Is(r, k, "open") /\ (\E p \in files' : p.id = log[r][k].f) =>
                           \E t \in tasks' : t.path.id = log[r][k].f /\ t.due > now'
        /\ tasks' # tasks /\ tasks' \subseteq tasks =>
               /\ pc' = pc
               /\ raised' = raised
               /\ send_success' = send_success
               /\ session' = session
               /\ log' = log ]_vars

\* the run ended without raising, its file was removed by something else,
\* and then its task ran: the deletion failed
C12_Witness ==
    \E r \in Runs :
        /\ pc[r] = "done"
        /\ ~raised[r]
        /\ \E p \in unlinked :
            /\ \E k \in Pos(r) : Is(r, k, "open") /\ log[r][k].f = p.id
            /\ \A t \in tasks : t.path # p
====
